---- MODULE Spec2Model ----
(***************************************************************************)
(* Source <-> rendered-output synchronisation of the LaTeX editor          *)
(* (frontend/src/App.tsx): the source text, the sync status, the           *)
(* selection, the compile round trip and the animated line replacement.    *)
(*                                                                         *)
(* Texts are sequences of one-character strings.  An optional value        *)
(* (null / undefined in the source) is a sequence of length 0 or 1.        *)
(* A line number that is null in the source is NoLine.                     *)
(***************************************************************************)
EXTENDS Integers, Sequences, FiniteSets, TLC

\* ------------------------------------------------------------------ bounds
\* user events (edits, selections, compile clicks, chat submits, storage
\* becoming (un)available) in one behaviour
MaxEvents == 3
\* direct calls of applyLatexReplacement in one behaviour of SpecAnimator
MaxSessions == 2

\* --------------------------------------------------------------- constants
TYPE_ANIMATION_MAX_STEPS == 160
BACKSPACE_ANIMATION_MAX_STEPS == 120

NL == "\n"
CR == "\r"
NoLine == 0

SYNC_STATUS ==
  [pending |-> "Sync pending", ready |-> "Sync done",
   loading |-> "Sync loading", dirty |-> "Source differs from last compile"]

LOAD_STATUS ==
  [idle |-> "Compile to preview", ready |-> "PDF ready",
   loading |-> "Compiling PDF...", error |-> "PDF error"]

\* ------------------------------------------------------- string primitives
Min(a, b) == IF a <= b THEN a ELSE b
Max(a, b) == IF a >= b THEN a ELSE b

\* String.prototype.slice(from, to) for 0 <= from, to (0-based, end exclusive)
Slice(s, from, to) == SubSeq(s, from + 1, Min(to, Len(s)))

\* String.prototype.slice(from)
SliceFrom(s, from) == SubSeq(s, from + 1, Len(s))

\* index (1-based) of the first NL of s, 0 when there is none
IndexOfNL(s, k) ==
  LET hits == {j \in k..Len(s) : s[j] = NL}
  IN IF hits = {} THEN 0 ELSE CHOOSE j \in hits : \A h \in hits : j <= h

\* String.prototype.split('\n')
RECURSIVE Split(_)
Split(s) ==
  LET k == IndexOfNL(s, 1)
  IN IF k = 0 THEN <<s>>
     ELSE <<SubSeq(s, 1, k - 1)>> \o Split(SubSeq(s, k + 1, Len(s)))

\* String.prototype.trim() applied to a text, as the test !s.trim()
IsBlank(s) == \A k \in 1..Len(s) : s[k] \in {NL, CR, " "}

\* ------------------------------------------------------- helpers of App.tsx
getLineNumber(source, index) == Len(Split(Slice(source, 0, index)))

\* mutant: the two lines are kept in argument order
normalizeLineRangeUnordered(startLine, endLine) ==
  [start |-> startLine, end |-> endLine]

normalizeLineRange(startLine, endLine) ==
  [start |-> Min(startLine, endLine), end |-> Max(startLine, endLine)]

getSelectionLineRange(source, selectionStart, selectionEnd) ==
  IF selectionStart = selectionEnd THEN <<>>
  ELSE LET startIndex == Min(selectionStart, selectionEnd)
           endIndex == Max(selectionStart, selectionEnd)
           startLine == getLineNumber(source, startIndex)
           endLine == getLineNumber(source, endIndex)
       IN IF startLine = endLine THEN <<>>
          ELSE <<normalizeLineRange(startLine, endLine)>>

\* sum of lines[i].length + 1 for i in from..to (1-based, inclusive)
RECURSIVE SumLineLengths(_, _, _)
SumLineLengths(lines, from, to) ==
  IF from > to THEN 0
  ELSE Len(lines[from]) + 1 + SumLineLengths(lines, from + 1, to)

getLineSpan(source, range) ==
  LET lines == Split(source)
      startLine == Min(Max(range.start, 1), Len(lines))
      endLine == Min(Max(range.end, 1), Len(lines))
      start == SumLineLengths(lines, 1, startLine - 1)
      end == start + SumLineLengths(lines, startLine, endLine)
  IN [start |-> start,
      end |-> IF endLine = Len(lines) THEN Max(start, end - 1) ELSE end]

\* truthiness of an optional string: neither null/undefined nor ''
Truthy(optional) == IF optional = <<>> THEN FALSE ELSE optional[1] # <<>>

\* compiledSource is optional (compileResponse?.source)
getSyncStatus(source, compiledSource) ==
  IF ~Truthy(compiledSource) THEN SYNC_STATUS.pending
  ELSE IF source = compiledSource[1] THEN SYNC_STATUS.ready
       ELSE SYNC_STATUS.dirty

getStepSize(length, maxSteps) ==
  Max(1, (length + maxSteps - 1) \div maxSteps)

\* value.replace(/\r\n/g, '\n')
\* every CR that a NL follows is dropped
normalizeLatex(value) ==
  LET kept == SelectSeq([j \in 1..Len(value) |-> j],
                        LAMBDA j : ~(/\ value[j] = CR
                                     /\ j < Len(value)
                                     /\ value[j + 1] = NL))
  IN [i \in 1..Len(kept) |-> value[kept[i]]]


\* --------------------------------------------------------------- input sets
\* the bundled template document (/sample.tex)
SampleText == <<"a", NL, "b">>

\* values the editor can hold after a manual edit
EditTexts == {<<>>, SampleText, <<"a", NL, "b", NL, "c">>}

\* replacement texts a rewrite response can carry
LatexTexts == {<<>>, <<"x", CR, NL, "y">>}

\* the snapshot a compile response can carry for a request: the request's
\* text, a text normalised by the server, or an empty one
ServerSnapshots(requestSource) == {requestSource, <<"a">>, <<>>}

\* the mapping lists a compile response can carry (only the line is kept)
\* a SynctexMapping: its line, its page and its rectangle in page units
Region(line, page, x, y, width, height) ==
  [line |-> line, page |-> page, x |-> x, y |-> y, width |-> width,
   height |-> height]

MappingLists == {<<>>, <<Region(2, 1, 1, 1, 2, 1)>>}

\* ------------------------------------------------------------------- state
VARIABLES
  latexSource,        \* useState('')
  latexSourceRef,     \* useRef(latexSource)
  storage,            \* localStorage slot STORAGE_KEY (optional text)
  editorStatus,
  previewStatus,
  syncStatus,
  compileResponse,    \* optional [source, mappings]
  synctexPayload,     \* optional [version, mappings]
  activeLine,
  selectedLineRange,  \* optional LineRange
  isCompiling,
  compileError,       \* optional message
  isSendingChat,
  isApplyingLatex,
  chatError,          \* optional message
  animationIdRef,
  loadCall,           \* position of loadSource
  compileCall,        \* closures of the handleCompile calls in flight
  pageMetrics,        \* optional metrics of the page drawn on the canvas
  renderCall,         \* TRUE while a renderPdf call with isMounted set is in flight
  chatCall,           \* optional closure of the handleChatSubmit call awaiting its response
  sessions,           \* applyLatexReplacement activations, in call order
  storageAvailable,   \* whether localStorage calls succeed or throw
  events,             \* number of user events so far
  lastClick,          \* when the last user event was a region click: its arguments and closure
  payload,            \* optional SynctexPayload that createMockCompileResponse encoded
  synctexBase64,      \* optional wire string: CompileResponse.synctex
  parsedPayload,      \* optional outcome of parseSynctexPayload(synctexBase64)
  jsonSource,         \* FlashcardPage: useState(SAMPLE_JSON), as the document it holds
  cards,              \* FlashcardPage: the deck
  loadStatus,
  loadError,          \* optional message
  currentIndex,
  isRevealed,
  correctCount,
  wrongCount,
  operation           \* the FlashcardPage handler called last

textVars == <<latexSource, latexSourceRef, storage, editorStatus>>
compileVars == <<previewStatus, compileResponse, synctexPayload, isCompiling,
                 compileError, compileCall, pageMetrics, renderCall>>
selectionVars == <<activeLine, selectedLineRange>>
chatVars == <<isSendingChat, chatError, chatCall>>
animVars == <<isApplyingLatex, animationIdRef, sessions>>

wireVars == <<payload, synctexBase64, parsedPayload>>

\* FlashcardPage: the deck with its study session, and the rest of the page
sessionVars == <<cards, currentIndex, isRevealed, correctCount, wrongCount>>
cardVars == <<jsonSource, sessionVars, loadStatus, loadError, operation>>

envVars == <<storageAvailable, events, lastClick, wireVars, cardVars>>

vars == <<textVars, syncStatus, compileVars, selectionVars, chatVars,
          animVars, loadCall, envVars>>

\* --------------------------------------------------------------- FlashcardPage
\* String.prototype.trim() on a text
Trim(s) ==
  LET inked == {k \in 1..Len(s) : s[k] \notin {NL, CR, " "}}
  IN IF inked = {} THEN <<>>
     ELSE SubSeq(s, CHOOSE k \in inked : \A h \in inked : k <= h,
                    CHOOSE k \in inked : \A h \in inked : k >= h)

\* a property of a card object, present: a string, or a value of another type
Property(type, text) == [type |-> type, text |-> text]

\* what JSON.parse returns for an element of the list: null ("null"), a value
\* that is no object ("string"), or an object ("object") whose four
\* properties are each absent or present
Item(kind, question, answer, front, back) ==
  [kind |-> kind, question |-> question, answer |-> answer,
   front |-> front, back |-> back]

\* what JSON.parse does with the editor's text: it throws ("invalid"), or
\* returns null, a number, an array, an object with an array `cards`
\* ("cards"), or another object
Parsed(kind, items) == [kind |-> kind, items |-> items]

\* parseCards returns its cards or throws an Error with a message
Outcome(ok, deck, message) == [ok |-> ok, cards |-> deck, error |-> message]

\* the .map callback of parseCards: a card, or null as <<>>
parseCard(card) ==
  IF card.kind # "object" THEN <<>>
  ELSE LET IsString(property) ==
             property # <<>> /\ property[1].type = "string"
           question == IF IsString(card.question) THEN card.question[1].text
                       ELSE IF IsString(card.front) THEN card.front[1].text
                       ELSE <<>>
           answer == IF IsString(card.answer) THEN card.answer[1].text
                     ELSE IF IsString(card.back) THEN card.back[1].text
                     ELSE <<>>
       IN IF IsBlank(question) \/ IsBlank(answer) THEN <<>>
          ELSE <<[question |-> Trim(question), answer |-> Trim(answer)]>>

parseCards(source) ==
  IF source.kind = "invalid" THEN Outcome(FALSE, <<>>, "SyntaxError")
  ELSE IF source.kind = "null" THEN Outcome(FALSE, <<>>, "TypeError")
  ELSE IF source.kind \notin {"array", "cards"}
  THEN Outcome(FALSE, <<>>, "JSON must be an array or { \"cards\": [...] }.")
  ELSE LET kept == SelectSeq(source.items, LAMBDA card : parseCard(card) # <<>>)
           deck == [k \in 1..Len(kept) |-> parseCard(kept[k])[1]]
       IN IF deck = <<>>
          THEN Outcome(FALSE, <<>>, "No valid cards found in JSON.")
          ELSE Outcome(TRUE, deck, "")

SAMPLE_JSON ==
  LET Card(question, answer) ==
        Item("object", <<Property("string", <<question>>)>>,
             <<Property("string", <<answer>>)>>, <<>>, <<>>)
  IN Parsed("array", <<Card("h", "l"), Card("k", "u"), Card("c", "o")>>)

\* loadStatus is 'Sample deck', `Loaded ${n} cards`, 'Load failed' or
\* 'Shuffled deck': a text with the number it shows
InitFlashcardPage ==
  /\ jsonSource = SAMPLE_JSON
  /\ cards = parseCards(SAMPLE_JSON).cards
  /\ loadStatus = [text |-> "Sample deck", count |-> 0]
  /\ loadError = <<>>
  /\ currentIndex = 0
  /\ isRevealed = FALSE
  /\ correctCount = 0
  /\ wrongCount = 0
  /\ operation = "none"

\* compileResponse?.source
CompiledSource(response) ==
  IF response = <<>> THEN <<>> ELSE <<response[1].source>>

\* state of the component after its first render, before the mount effect
Init ==
  /\ latexSource = <<>>
  /\ latexSourceRef = <<>>
  /\ storage \in {<<>>, << <<"a", NL, "b", NL, "c">> >>}
  /\ editorStatus = ""
  /\ previewStatus = LOAD_STATUS.idle
  /\ syncStatus = SYNC_STATUS.pending
  /\ compileResponse = <<>>
  /\ synctexPayload = <<>>
  /\ activeLine = NoLine
  /\ selectedLineRange = <<>>
  /\ isCompiling = FALSE
  /\ compileError = <<>>
  /\ isSendingChat = FALSE
  /\ isApplyingLatex = FALSE
  /\ chatError = <<>>
  /\ animationIdRef = 0
  /\ loadCall = "mounted"
  /\ compileCall = <<>>
  /\ pageMetrics = <<>>
  /\ renderCall = FALSE
  /\ chatCall = <<>>
  /\ sessions = <<>>
  /\ storageAvailable \in BOOLEAN
  /\ events = 0
  /\ lastClick = <<>>
  /\ payload = <<>>
  /\ synctexBase64 = <<>>
  /\ parsedPayload = <<>>
  /\ InitFlashcardPage

\* a user event within the bound
UserEvent ==
  /\ loadCall # "mounted"
  /\ events < MaxEvents
  /\ events' = events + 1
  /\ lastClick' = <<>>
  /\ UNCHANGED <<storageAvailable, wireVars, cardVars>>

\* localStorage becomes unavailable (quota, privacy mode) or available again
StorageFlip ==
  /\ loadCall # "mounted"
  /\ events < MaxEvents
  /\ events' = events + 1
  /\ storageAvailable' = ~storageAvailable
  /\ lastClick' = <<>>
  /\ UNCHANGED <<textVars, syncStatus, compileVars, selectionVars, chatVars,
                 animVars, loadCall, wireVars, cardVars>>

\* ------------------------------------------------------------- persistence
\* mutant: a write that fails leaves the status indicator alone
PersistLatexSilent(src) ==
  /\ storage' = IF storageAvailable THEN <<src>> ELSE storage
  /\ editorStatus' = IF storageAvailable THEN "Local storage" ELSE editorStatus

\* persistLatex: setItem either succeeds or throws
PersistLatex(src) ==
  /\ storage' = IF storageAvailable THEN <<src>> ELSE storage
  /\ editorStatus' = IF storageAvailable THEN "Local storage"
                     ELSE "Local storage unavailable"

\* setLatexSource followed by the render and the effect that copies it to the ref
SetLatexSource(src) ==
  /\ latexSource' = src
  /\ latexSourceRef' = src

\* ---------------------------------------------------------------- loadSource
\* mount effect: the stored text when the slot is readable and non-empty
LoadStored ==
  /\ loadCall = "mounted"
  /\ storageAvailable
  /\ Truthy(storage)
  /\ SetLatexSource(storage[1])
  /\ editorStatus' = "Local storage"
  /\ syncStatus' = getSyncStatus(storage[1], <<>>)
  /\ loadCall' = "done"
  /\ UNCHANGED <<storage, compileVars, selectionVars, chatVars, animVars,
                 envVars>>

\* mount effect: nothing usable in the slot (absent, empty or getItem threw),
\* the sample file is requested
LoadFetchSample ==
  /\ loadCall = "mounted"
  /\ storageAvailable => ~Truthy(storage)
  /\ loadCall' = IF storageAvailable THEN "fetching" ELSE "fetching_unavailable"
  /\ UNCHANGED <<textVars, syncStatus, compileVars, selectionVars, chatVars,
                 animVars, envVars>>

\* the fetch of /sample.tex settles: ok with the text, not ok, or rejected
LoadSampleSettled ==
  /\ loadCall \in {"fetching", "fetching_unavailable"}
  /\ \E outcome \in {"ok", "notok", "rejected"} :
       LET nextSource == IF outcome = "ok" THEN SampleText ELSE <<>>
           priorStatus == IF loadCall = "fetching_unavailable"
                          THEN "Local storage unavailable" ELSE ""
           nextStatus ==
             IF outcome = "ok" THEN "Sample file"
             ELSE IF outcome = "rejected" /\ priorStatus = ""
                  THEN "Sample file unavailable"
                  ELSE IF priorStatus = "" THEN "No source loaded"
                       ELSE priorStatus
       IN /\ SetLatexSource(nextSource)
          /\ editorStatus' = nextStatus
          /\ syncStatus' = getSyncStatus(nextSource, <<>>)
  /\ loadCall' = "done"
  /\ UNCHANGED <<storage, compileVars, selectionVars, chatVars, animVars,
                 envVars>>

\* the offsets a selection boundary takes in the checked instances: the start
\* of every line and the end of the text
SelectionOffsets(text) ==
  {k \in 0..Len(text) : k = 0 \/ k = Len(text) \/ text[k] = NL}

\* --------------------------------------------------------- handleEditorChange
\* the textarea is readOnly while isApplyingLatex
\* mutant: the textarea accepts input while it is read-only
handleEditorChangeWhileReadOnly(value, selectionStart, selectionEnd) ==
  /\ UserEvent
  /\ SetLatexSource(value)
  /\ PersistLatex(value)
  /\ syncStatus' = getSyncStatus(value, CompiledSource(compileResponse))
  /\ activeLine' = getLineNumber(value, selectionStart)
  /\ selectedLineRange' = getSelectionLineRange(value, selectionStart, selectionEnd)
  /\ UNCHANGED <<compileVars, chatVars, animVars, loadCall>>

handleEditorChange(value, selectionStart, selectionEnd) ==
  /\ ~isApplyingLatex
  /\ UserEvent
  /\ SetLatexSource(value)
  /\ PersistLatex(value)
  /\ syncStatus' = getSyncStatus(value, CompiledSource(compileResponse))
  /\ activeLine' = getLineNumber(value, selectionStart)
  /\ selectedLineRange' = getSelectionLineRange(value, selectionStart, selectionEnd)
  /\ UNCHANGED <<compileVars, chatVars, animVars, loadCall>>

EditorChange ==
  \E value \in EditTexts :
    \E selectionStart \in SelectionOffsets(value) :
      \E selectionEnd \in {k \in SelectionOffsets(value) : k >= selectionStart} :
        handleEditorChange(value, selectionStart, selectionEnd)

\* ------------------------------------------------- updateActiveLineFromEditor
\* click, key-up or mouse-up in the focused editor; editor.value is latexSource
updateActiveLineFromEditor(selectionStart, selectionEnd) ==
  LET range == getSelectionLineRange(latexSource, selectionStart, selectionEnd)
  IN /\ UserEvent
     /\ activeLine' = getLineNumber(latexSource, selectionStart)
     /\ selectedLineRange' = IF range # <<>> THEN range ELSE selectedLineRange
     /\ UNCHANGED <<textVars, syncStatus, compileVars, chatVars, animVars,
                    loadCall>>

EditorSelect ==
  \E selectionStart \in SelectionOffsets(latexSource) :
    \E selectionEnd \in {k \in SelectionOffsets(latexSource) : k >= selectionStart} :
      updateActiveLineFromEditor(selectionStart, selectionEnd)

\* -------------------------------------------------------------- handleCompile
\* the sequence without its k-th element
RemoveAt(seq, k) == SubSeq(seq, 1, k - 1) \o SubSeq(seq, k + 1, Len(seq))

\* mutant: the button stays enabled while a compile is in flight
CompileButtonIgnoresBusy == ~IsBlank(latexSource)

\* the compile button is disabled while isCompiling or while the source is blank
CompileButtonEnabled == ~isCompiling /\ ~IsBlank(latexSource)

\* mutant: the blank branch sends the request all the same
handleCompileBlankSends ==
  /\ isCompiling' = TRUE
  /\ compileError' = <<"Add LaTeX source before compiling.">>
  /\ previewStatus' = LOAD_STATUS.error
  /\ compileCall' = Append(compileCall,
                           [latexSource |-> latexSource,
                            compiledSource |-> CompiledSource(compileResponse)])
  /\ UNCHANGED <<textVars, syncStatus, compileResponse, synctexPayload,
                 selectionVars, chatVars, animVars, loadCall>>
  /\ UNCHANGED <<pageMetrics, renderCall>>

\* the first branch of handleCompile: blank source, nothing is sent
handleCompileBlank ==
  /\ compileError' = <<"Add LaTeX source before compiling.">>
  /\ previewStatus' = LOAD_STATUS.error
  /\ UNCHANGED <<textVars, syncStatus, compileResponse, synctexPayload,
                 isCompiling, compileCall, selectionVars, chatVars, animVars,
                 loadCall>>
  /\ UNCHANGED <<pageMetrics, renderCall>>

\* the rest of handleCompile up to the await of fetch
handleCompileRequest ==
  /\ isCompiling' = TRUE
  /\ compileError' = <<>>
  /\ previewStatus' = LOAD_STATUS.loading
  /\ syncStatus' = SYNC_STATUS.loading
  /\ compileCall' = Append(compileCall,
                           [latexSource |-> latexSource,
                            compiledSource |-> CompiledSource(compileResponse)])
  /\ UNCHANGED <<textVars, compileResponse, synctexPayload, selectionVars,
                 chatVars, animVars, loadCall>>
  /\ UNCHANGED <<pageMetrics, renderCall>>

\* a call of the handler
handleCompile ==
  /\ UserEvent
  /\ IF IsBlank(latexSource) THEN handleCompileBlank ELSE handleCompileRequest

\* a click on the compile button
CompileClick ==
  /\ CompileButtonEnabled
  /\ handleCompile

\* the text handleCompile compares with the returned snapshot: the latexSource
\* of its closure
CompiledAgainst(call) == call.latexSource

\* response.ok: the artifact is stored, the effect on synctexPayload gives a
\* default active line, the render effect starts
CompileSucceeded(k, data) ==
  /\ compileResponse' = <<data>>
  /\ synctexPayload' = <<[version |-> 1, mappings |-> data.mappings]>>
  /\ syncStatus' = getSyncStatus(CompiledAgainst(compileCall[k]), <<data.source>>)
  /\ isCompiling' = FALSE
  /\ compileCall' = RemoveAt(compileCall, k)
  /\ previewStatus' = LOAD_STATUS.loading
  /\ activeLine' = IF data.mappings # <<>> /\ activeLine = NoLine
                   THEN data.mappings[1].line ELSE activeLine
  /\ UNCHANGED <<textVars, compileError, selectedLineRange, chatVars,
                 animVars, loadCall, envVars>>
  /\ renderCall' = TRUE
  /\ UNCHANGED pageMetrics

CompileSuccess ==
  \E k \in DOMAIN compileCall :
    \E snapshot \in ServerSnapshots(compileCall[k].latexSource),
       mappings \in MappingLists :
      CompileSucceeded(k, [source |-> snapshot, mappings |-> mappings])

\* the ways a compile request fails: fetch rejects with an Error, the response
\* is not ok (body a bare string, or JSON with or without an error field), or
\* the body of an ok response does not parse
FailedCompiles ==
  { [kind |-> "rejected", body |-> "Failed to fetch", json |-> FALSE, error |-> <<>>],
    [kind |-> "notok", body |-> "", json |-> FALSE, error |-> <<>>],
    [kind |-> "notok", body |-> "{error}", json |-> TRUE, error |-> <<"Failed to fetch">>],
    [kind |-> "unparseable", body |-> "Unexpected token", json |-> FALSE, error |-> <<>>] }

\* the message of the Error that reaches the catch block
CompileErrorMessage(failure) ==
  IF failure.kind = "notok"
  THEN IF failure.json
       THEN IF failure.error # <<>> THEN failure.error[1] ELSE failure.body
       ELSE IF failure.body # "" THEN failure.body ELSE "Compile failed"
  ELSE failure.body

\* mutant: a failed compile discards the stored artifact
CompileFailedDropsArtifact(k, failure) ==
  /\ compileError' = <<CompileErrorMessage(failure)>>
  /\ previewStatus' = LOAD_STATUS.error
  /\ syncStatus' = SYNC_STATUS.pending
  /\ isCompiling' = FALSE
  /\ compileCall' = RemoveAt(compileCall, k)
  /\ compileResponse' = <<>>
  /\ synctexPayload' = <<>>
  /\ UNCHANGED <<textVars, selectionVars, chatVars, animVars, loadCall, envVars>>
  /\ UNCHANGED <<pageMetrics, renderCall>>

\* the catch and finally blocks
CompileFailed(k, failure) ==
  /\ compileError' = <<CompileErrorMessage(failure)>>
  /\ previewStatus' = LOAD_STATUS.error
  /\ syncStatus' = getSyncStatus(CompiledAgainst(compileCall[k]),
                                 compileCall[k].compiledSource)
  /\ isCompiling' = FALSE
  /\ compileCall' = RemoveAt(compileCall, k)
  /\ UNCHANGED <<textVars, compileResponse, synctexPayload, selectionVars,
                 chatVars, animVars, loadCall, envVars>>
  /\ UNCHANGED <<pageMetrics, renderCall>>

CompileFailure ==
  \E k \in DOMAIN compileCall, failure \in FailedCompiles :
    CompileFailed(k, failure)

\* ------------------------------------------------------------------ renderPdf
\* what setPageMetrics stores for the first page
\* (the viewport transform of an unrotated page: scale 2 with the y axis
\* flipped on a page 10 units high, in whole units)
RenderedMetrics ==
  [scale |-> "1.25", page |-> 1, transform |-> <<2, 0, 0, -2, 0, 20>>]

\* the page was drawn: metrics stored, preview Ready
RenderSuccess ==
  /\ renderCall
  /\ renderCall' = FALSE
  /\ pageMetrics' = <<RenderedMetrics>>
  /\ previewStatus' = LOAD_STATUS.ready
  /\ UNCHANGED <<textVars, syncStatus, compileResponse, synctexPayload,
                 isCompiling, compileError, compileCall, selectionVars,
                 chatVars, animVars, loadCall, envVars>>

\* mutant: a failed rasterization discards the artifact
RenderFailureDropsArtifact ==
  /\ renderCall
  /\ renderCall' = FALSE
  /\ previewStatus' = LOAD_STATUS.error
  /\ compileResponse' = <<>>
  /\ synctexPayload' = <<>>
  /\ UNCHANGED <<textVars, syncStatus, isCompiling, compileError, compileCall,
                 pageMetrics, selectionVars, chatVars, animVars, loadCall,
                 envVars>>

\* getDocument, getPage or render rejected, or the canvas has no 2d context
RenderFailure ==
  /\ renderCall
  /\ renderCall' = FALSE
  /\ previewStatus' = LOAD_STATUS.error
  /\ UNCHANGED <<textVars, syncStatus, compileResponse, synctexPayload,
                 isCompiling, compileError, compileCall, pageMetrics,
                 selectionVars, chatVars, animVars, loadCall, envVars>>

\* ------------------------------------------------------ applyLatexReplacement
\* mutant: the id is not advanced
NextAnimationIdReused(current) == current

NextAnimationId(current) == current + 1

DeleteStepSize(s) == getStepSize(Len(s.removedText), BACKSPACE_ANIMATION_MAX_STEPS)

TypeStepSize(s) ==
  getStepSize(IF Len(s.normalizedLatex) = 0 THEN 1 ELSE Len(s.normalizedLatex),
              TYPE_ANIMATION_MAX_STEPS)

DeleteFrame(s, i) == s.prefix \o Slice(s.removedText, 0, i) \o s.suffix
TypeFrame(s, i) == s.prefix \o Slice(s.normalizedLatex, 0, i) \o s.suffix
FinalSource(s) == s.prefix \o s.normalizedLatex \o s.suffix

DeleteLoopContinues(s) == s.i >= 0
\* mutant: the type loop stops before the frame of the full replacement
TypeLoopStopsEarly(s) == s.i < Len(s.normalizedLatex)

TypeLoopContinues(s) == s.i <= Len(s.normalizedLatex)

\* mutant: the end of the range is one line too far
UpdatedRangeOffByOne(range, normalizedLatex) ==
  LET lineCount == IF Len(normalizedLatex) # 0
                   THEN Len(Split(normalizedLatex)) ELSE 1
  IN [start |-> range.start, end |-> range.start + lineCount]

UpdatedRange(range, normalizedLatex) ==
  LET lineCount == IF Len(normalizedLatex) # 0
                   THEN Len(Split(normalizedLatex)) ELSE 1
  IN [start |-> range.start, end |-> range.start + Max(lineCount - 1, 0)]

\* mutant: the guard is not checked
IsCurrentUnchecked(s) == TRUE

\* the guard before every write: animationIdRef.current === animationId
IsCurrent(s) == animationIdRef = s.animationId

\* the locals of a call, after its first loop iteration has written its frame
NewSession(range, latex, compiledSource, fromChat) ==
  LET source == latexSourceRef
      span == getLineSpan(source, range)
      s0 == [animationId |-> NextAnimationId(animationIdRef),
             range |-> range,
             source |-> source,
             prefix |-> Slice(source, 0, span.start),
             suffix |-> SliceFrom(source, span.end),
             removedText |-> Slice(source, span.start, span.end),
             normalizedLatex |-> normalizeLatex(latex),
             compiledSource |-> compiledSource,
             fromChat |-> fromChat,
             pc |-> "delete", i |-> 0, log |-> <<>>]
  IN IF Len(s0.removedText) > 0
     THEN [s0 EXCEPT !.pc = "delete",
                     !.i = Len(s0.removedText) - DeleteStepSize(s0),
                     !.log = <<"delete">>]
     ELSE [s0 EXCEPT !.pc = "type", !.i = TypeStepSize(s0), !.log = <<"type">>]

FirstFrame(s) ==
  IF s.pc = "delete" THEN DeleteFrame(s, Len(s.removedText)) ELSE TypeFrame(s, 0)

\* what is left of the locals once the call has returned after its commit
Returned(s) ==
  [s EXCEPT !.pc = "done", !.source = <<>>, !.prefix = <<>>, !.suffix = <<>>,
            !.removedText = <<>>, !.normalizedLatex = <<>>,
            !.compiledSource = <<>>, !.i = 0, !.log = <<>>,
            !.range = [start |-> 0, end |-> 0]]

\* applyLatexReplacement(range, latex) up to its first sleep; the caller has
\* checked that latexSourceRef.current is not empty
BeginSession(range, latex, compiledSource, fromChat) ==
  LET s == NewSession(range, latex, compiledSource, fromChat)
  IN /\ animationIdRef' = s.animationId
     /\ isApplyingLatex' = TRUE
     /\ SetLatexSource(FirstFrame(s))
     /\ sessions' = Append(sessions, s)

\* mutant: every frame is persisted
WriteFramePersisted(k, frame, next) ==
  /\ SetLatexSource(frame)
  /\ PersistLatex(frame)
  /\ sessions' = [sessions EXCEPT ![k] = next]
  /\ UNCHANGED <<syncStatus, compileVars, selectionVars, chatVars,
                 isApplyingLatex, animationIdRef, loadCall, envVars>>

\* a frame of session k is written and the call sleeps again
WriteFrame(k, frame, next) ==
  /\ SetLatexSource(frame)
  /\ sessions' = [sessions EXCEPT ![k] = next]
  /\ UNCHANGED <<storage, editorStatus, syncStatus, compileVars, selectionVars,
                 chatVars, isApplyingLatex, animationIdRef, loadCall, envVars>>

\* mutant: handleChatSubmit's finally block does not run after an abort
AbortSkipsFinally(k) ==
  /\ sessions' = [sessions EXCEPT ![k].pc = "aborted"]
  /\ UNCHANGED <<textVars, syncStatus, compileVars, selectionVars, chatVars,
                 isApplyingLatex, animationIdRef, loadCall, envVars>>

\* the guard failed: return; the finally block leaves isApplyingLatex alone;
\* handleChatSubmit's finally block runs when it awaited the call
Abort(k) ==
  /\ sessions' = [sessions EXCEPT ![k].pc = "aborted"]
  /\ isSendingChat' = IF sessions[k].fromChat THEN FALSE ELSE isSendingChat
  /\ UNCHANGED <<textVars, syncStatus, compileVars, selectionVars, chatError,
                 chatCall, isApplyingLatex, animationIdRef, loadCall, envVars>>

Commit(k) ==
  LET s == sessions[k]
      finalSource == FinalSource(s)
      updatedRange == UpdatedRange(s.range, s.normalizedLatex)
  IN /\ SetLatexSource(finalSource)
     /\ PersistLatex(finalSource)
     /\ syncStatus' = getSyncStatus(finalSource, s.compiledSource)
     /\ selectedLineRange' = <<updatedRange>>
     /\ activeLine' = updatedRange.end
     /\ isApplyingLatex' = FALSE
     /\ isSendingChat' = IF s.fromChat THEN FALSE ELSE isSendingChat
     /\ sessions' = [sessions EXCEPT ![k] = Returned(s)]
     /\ UNCHANGED <<compileVars, chatError, chatCall, animationIdRef, loadCall, envVars>>

\* session k resumes after a sleep and runs to its next sleep or to its return
AnimationStep(k) ==
  LET s == sessions[k]
  IN /\ s.pc \in {"delete", "type"}
     /\ IF ~IsCurrent(s) THEN Abort(k)
        ELSE IF s.pc = "delete" /\ DeleteLoopContinues(s)
        THEN WriteFrame(k, DeleteFrame(s, s.i),
                        [s EXCEPT !.i = s.i - DeleteStepSize(s),
                                  !.log = Append(s.log, "delete")])
        ELSE IF s.pc = "delete"
        THEN WriteFrame(k, TypeFrame(s, 0),
                        [s EXCEPT !.pc = "type", !.i = TypeStepSize(s),
                                  !.log = Append(s.log, "type")])
        ELSE IF TypeLoopContinues(s)
        THEN WriteFrame(k, TypeFrame(s, s.i),
                        [s EXCEPT !.i = s.i + TypeStepSize(s),
                                  !.log = Append(s.log, "type")])
        ELSE Commit(k)

Animate == \E k \in DOMAIN sessions : AnimationStep(k)

\* ------------------------------------------------------------ handleChatSubmit
\* selectedLineRange ?? (activeLine ? {start: activeLine, end: activeLine} : null)
RangeForRequest ==
  IF selectedLineRange # <<>> THEN selectedLineRange
  ELSE IF activeLine # NoLine
       THEN <<[start |-> activeLine, end |-> activeLine]>>
       ELSE <<>>

\* the argument of getLineTexts as the function reads it: `range.start` and
\* `range.end`, each a number or undefined
RangeArgument(range) == [start |-> <<range.start>>, end |-> <<range.end>>]

\* a number has neither property
NumberArgument(line) == [start |-> <<>>, end |-> <<>>]

\* Math.max(1, undefined) and Math.min(lines.length, undefined) are NaN and
\* `i <= NaN` is false: the loop does not run
getLineTexts(source, range) ==
  IF range.start = <<>> \/ range.end = <<>> THEN <<>>
  ELSE LET lines == Split(source)
           start == Max(1, range.start[1])
           end == Min(Len(lines), range.end[1])
       IN [k \in 1..Max(0, end - start + 1) |->
             [line_number |-> start + k - 1, text |-> lines[start + k - 1]]]

\* useMemo: getLineTexts is given the line number; its result, an array,
\* is never null
selectedLine ==
  IF activeLine = NoLine THEN <<>>
  ELSE <<[line_number |-> activeLine,
          text |-> getLineTexts(latexSource, NumberArgument(activeLine))]>>

\* the selection context of the request body
ChatRequest ==
  IF selectedLineRange # <<>>
  THEN [selected_line |-> <<>>,
        selected_lines |->
          <<getLineTexts(latexSource, RangeArgument(selectedLineRange[1]))>>]
  ELSE [selected_line |-> selectedLine, selected_lines |-> <<>>]

\* a non-empty prompt is submitted; the closure keeps the range and the
\* applyLatexReplacement of this render
handleChatSubmit ==
  /\ ~isSendingChat /\ ~isApplyingLatex
  /\ UserEvent
  /\ isSendingChat' = TRUE
  /\ chatError' = <<>>
  /\ chatCall' = <<[rangeForRequest |-> RangeForRequest,
                    compiledSource |-> CompiledSource(compileResponse),
                    payload |-> ChatRequest]>>
  /\ UNCHANGED <<textVars, syncStatus, compileVars, selectionVars, animVars,
                 loadCall>>

\* the response carries a latex string and a range was sent
ChatReplyLatex ==
  /\ chatCall # <<>>
  /\ chatCall[1].rangeForRequest # <<>>
  /\ chatCall' = <<>>
  /\ \E latex \in LatexTexts :
       IF latexSourceRef = <<>>
       THEN /\ isSendingChat' = FALSE
            /\ UNCHANGED <<textVars, animVars>>
       ELSE /\ BeginSession(chatCall[1].rangeForRequest[1], latex,
                            chatCall[1].compiledSource, TRUE)
            /\ UNCHANGED <<storage, editorStatus, isSendingChat>>
  /\ UNCHANGED <<syncStatus, compileVars, selectionVars, chatError, loadCall, envVars>>

\* the response carries no latex, or no range was sent
ChatReplyPlain ==
  /\ chatCall # <<>>
  /\ chatCall' = <<>>
  /\ isSendingChat' = FALSE
  /\ UNCHANGED <<textVars, syncStatus, compileVars, selectionVars, chatError,
                 animVars, loadCall, envVars>>

\* the response carries a blank reply, with or without a latex string:
\* the throw skips the applyLatexReplacement call
ChatReplyEmpty(latex) ==
  /\ chatCall # <<>>
  /\ chatCall' = <<>>
  /\ chatError' = <<"Chatbot returned an empty response.">>
  /\ isSendingChat' = FALSE
  /\ UNCHANGED <<textVars, syncStatus, compileVars, selectionVars, animVars,
                 loadCall, envVars>>

ChatEmptyReply == \E latex \in {<<>>} \cup {<<text>> : text \in LatexTexts} :
  ChatReplyEmpty(latex)

\* fetch rejected or non-success response
ChatFailure ==
  /\ chatCall # <<>>
  /\ chatCall' = <<>>
  /\ chatError' = <<"Chat request failed">>
  /\ isSendingChat' = FALSE
  /\ UNCHANGED <<textVars, syncStatus, compileVars, selectionVars, animVars,
                 loadCall, envVars>>

\* ------------------------------------------------------------- specification
\* the editing side of the App: loading, editing, compiling, chat and the
\* animator, with renderPdf still awaiting its page; the drawn page and the
\* region clicks are the preview side, SpecPreview
Next ==
  \/ LoadStored
  \/ LoadFetchSample
  \/ LoadSampleSettled
  \/ StorageFlip
  \/ EditorChange
  \/ EditorSelect
  \/ CompileClick
  \/ CompileSuccess
  \/ CompileFailure
  \/ handleChatSubmit
  \/ ChatReplyLatex
  \/ ChatReplyPlain
  \/ ChatEmptyReply
  \/ ChatFailure
  \/ Animate

Spec == Init /\ [][Next]_vars


\* ------------------------------------------- the animator called directly
\* applyLatexReplacement is a function of (range, latex) whose generation guard
\* serves calls that overlap in time; SpecAnimator calls it without
\* handleChatSubmit's isSendingChat / isApplyingLatex test in front of it.
AnimatorRanges == {r \in [start : 1..2, end : 1..2] : r.start <= r.end}

InitAnimator ==
  /\ latexSource \in EditTexts \ {<<>>}
  /\ latexSourceRef = latexSource
  /\ storage = <<latexSource>>
  /\ editorStatus = "Local storage"
  /\ previewStatus = LOAD_STATUS.idle
  /\ syncStatus = SYNC_STATUS.pending
  /\ compileResponse = <<>>
  /\ synctexPayload = <<>>
  /\ activeLine = NoLine
  /\ selectedLineRange = <<>>
  /\ isCompiling = FALSE
  /\ compileError = <<>>
  /\ isSendingChat = FALSE
  /\ isApplyingLatex = FALSE
  /\ chatError = <<>>
  /\ animationIdRef = 0
  /\ loadCall = "done"
  /\ compileCall = <<>>
  /\ pageMetrics = <<>>
  /\ renderCall = FALSE
  /\ chatCall = <<>>
  /\ sessions = <<>>
  /\ storageAvailable = TRUE
  /\ events = 0
  /\ lastClick = <<>>
  /\ payload = <<>>
  /\ synctexBase64 = <<>>
  /\ parsedPayload = <<>>
  /\ InitFlashcardPage

applyLatexReplacement(range, latex) ==
  /\ Len(sessions) < MaxSessions
  /\ latexSourceRef # <<>>
  /\ BeginSession(range, latex, CompiledSource(compileResponse), FALSE)
  /\ UNCHANGED <<storage, editorStatus, syncStatus, compileVars, selectionVars,
                 chatVars, loadCall, envVars>>

ApplyDirect ==
  \E range \in AnimatorRanges, latex \in LatexTexts :
    applyLatexReplacement(range, latex)

NextAnimator ==
  \/ ApplyDirect
  \/ Animate

SpecAnimator == InitAnimator /\ [][NextAnimator]_vars

\* ------------------------------------------------------- handleHighlightClick
\* the user event of a region click
ClickEvent(m, shiftKey) ==
  /\ loadCall # "mounted"
  /\ events < MaxEvents
  /\ events' = events + 1
  /\ lastClick' = <<[line |-> m.line, shiftKey |-> shiftKey,
                     activeLine |-> activeLine,
                     selectedLineRange |-> selectedLineRange]>>
  /\ UNCHANGED <<storageAvailable, wireVars, cardVars>>

\* mutant: a plain click keeps the recorded range
PlainClickKeepsRange(m, shiftKey) ==
  LET anchorLine == IF selectedLineRange # <<>>
                    THEN selectedLineRange[1].start ELSE activeLine
  IN /\ ClickEvent(m, shiftKey)
     /\ selectedLineRange' = IF shiftKey /\ anchorLine # NoLine
                             THEN <<normalizeLineRange(anchorLine, m.line)>>
                             ELSE selectedLineRange
     /\ activeLine' = m.line
     /\ UNCHANGED <<textVars, syncStatus, compileVars, chatVars, animVars,
                    loadCall>>

\* a click on the region of mapping m; focusEditorRange and focusEditorLine
\* move the textarea's own selection and scroll position, no React state
handleHighlightClick(m, shiftKey) ==
  LET anchorLine == IF selectedLineRange # <<>>
                    THEN selectedLineRange[1].start ELSE activeLine
  IN /\ ClickEvent(m, shiftKey)
     /\ selectedLineRange' = IF shiftKey /\ anchorLine # NoLine
                             THEN <<normalizeLineRange(anchorLine, m.line)>>
                             ELSE <<>>
     /\ activeLine' = m.line
     /\ UNCHANGED <<textVars, syncStatus, compileVars, chatVars, animVars,
                    loadCall>>

\* the overlay with the region buttons exists once a page was drawn and a
\* region map is stored
OverlayRendered == pageMetrics # <<>> /\ synctexPayload # <<>>

Abs(n) == IF n < 0 THEN -n ELSE n

\* mutant: width and height are the signed differences of the corners
getHighlightStyleSigned(m) ==
  IF pageMetrics = <<>> THEN <<>>
  ELSE LET t == pageMetrics[1].transform
           x1 == t[1] * m.x + t[3] * m.y + t[5]
           y1 == t[2] * m.x + t[4] * m.y + t[6]
           x2 == t[1] * (m.x + m.width) + t[3] * (m.y + m.height) + t[5]
           y2 == t[2] * (m.x + m.width) + t[4] * (m.y + m.height) + t[6]
       IN <<[left |-> Min(x1, x2), top |-> Min(y1, y2),
             width |-> x2 - x1, height |-> y2 - y1]>>

\* the style of a region button: undefined without page metrics, else the
\* box spanned by the two transformed corners of the mapping's rectangle
getHighlightStyle(m) ==
  IF pageMetrics = <<>> THEN <<>>
  ELSE LET t == pageMetrics[1].transform
           x1 == t[1] * m.x + t[3] * m.y + t[5]
           y1 == t[2] * m.x + t[4] * m.y + t[6]
           x2 == t[1] * (m.x + m.width) + t[3] * (m.y + m.height) + t[5]
           y2 == t[2] * (m.x + m.width) + t[4] * (m.y + m.height) + t[6]
       IN <<[left |-> Min(x1, x2), top |-> Min(y1, y2),
             width |-> Abs(x2 - x1), height |-> Abs(y2 - y1)]>>

\* mutant: a placeholder region is drawn for an empty region map
RenderedRegionsWithPlaceholder ==
  IF OverlayRendered
  THEN IF synctexPayload[1].mappings = <<>>
       THEN <<Region(1, 1, 0, 0, 1, 1)>>
       ELSE SelectSeq(synctexPayload[1].mappings, LAMBDA m : m.page = 1)
  ELSE <<>>

\* the region buttons of the overlay: the mappings of the first page
RenderedRegions ==
  IF OverlayRendered
  THEN SelectSeq(synctexPayload[1].mappings, LAMBDA m : m.page = 1)
  ELSE <<>>

\* a click on one of the region buttons; the canvas has no handler
HighlightClick ==
  \E i \in DOMAIN RenderedRegions, shiftKey \in BOOLEAN :
    handleHighlightClick(RenderedRegions[i], shiftKey)

\* mutant: the range test is skipped
isLineHighlightedActiveOnly(line) ==
  activeLine # NoLine /\ line = activeLine

\* the class of a region button; activeLine null equals no line number
isLineHighlighted(line) ==
  IF selectedLineRange # <<>>
  THEN line >= selectedLineRange[1].start /\ line <= selectedLineRange[1].end
  ELSE activeLine # NoLine /\ line = activeLine

\* --------------------------------------------------------------- preview side
\* the App after the stored text was loaded and compiled: the artifact is
\* stored, the first mapping's line is the active line, renderPdf is running
PreviewText == <<"a", NL, "b", NL, "c">>

PreviewMappings ==
  <<Region(1, 1, 1, 2, 3, 1), Region(3, 1, 0, 4, 0, 2), Region(2, 2, 1, 2, 3, 1)>>

InitPreview ==
  /\ latexSource = PreviewText
  /\ latexSourceRef = latexSource
  /\ storage = <<latexSource>>
  /\ editorStatus = "Local storage"
  /\ previewStatus = LOAD_STATUS.loading
  /\ syncStatus = SYNC_STATUS.ready
  /\ compileResponse = <<[source |-> PreviewText, mappings |-> PreviewMappings]>>
  /\ synctexPayload = <<[version |-> 1, mappings |-> PreviewMappings]>>
  /\ activeLine = PreviewMappings[1].line
  /\ selectedLineRange = <<>>
  /\ isCompiling = FALSE
  /\ compileError = <<>>
  /\ isSendingChat = FALSE
  /\ isApplyingLatex = FALSE
  /\ chatError = <<>>
  /\ animationIdRef = 0
  /\ loadCall = "done"
  /\ compileCall = <<>>
  /\ pageMetrics = <<>>
  /\ renderCall = TRUE
  /\ chatCall = <<>>
  /\ sessions = <<>>
  /\ storageAvailable = TRUE
  /\ events = 0
  /\ lastClick = <<>>
  /\ payload = <<>>
  /\ synctexBase64 = <<>>
  /\ parsedPayload = <<>>
  /\ InitFlashcardPage

\* the preview side of the App: renderPdf settles and regions are clicked,
\* next to edits, selections and further compiles
NextPreview ==
  \/ RenderSuccess
  \/ RenderFailure
  \/ HighlightClick
  \/ EditorChange
  \/ EditorSelect
  \/ CompileClick
  \/ CompileSuccess
  \/ CompileFailure

SpecPreview == InitPreview /\ [][NextPreview]_vars

\* ------------------------------------------------------------- selection side
\* everything that writes the active line and the recorded range: editor
\* selections and edits, region clicks, and the commits of rewrites asked for
\* in the chat, from the state InitPreview
NextSelection ==
  \/ RenderSuccess
  \/ HighlightClick
  \/ EditorChange
  \/ EditorSelect
  \/ handleChatSubmit
  \/ ChatReplyLatex
  \/ ChatReplyPlain
  \/ ChatEmptyReply
  \/ Animate

SpecSelection == InitPreview /\ [][NextSelection]_vars

\* ------------------------------------------------------- getHighlightStyle
\* the overlay of one region under the transforms and rectangles the function
\* is checked on: every sign pattern of the linear part, two translations,
\* rectangles with positive, zero and negative extent
TransformEntries == {-2, 0, 1}

Transforms ==
  {<<a, b, c, d, ef[1], ef[2]>> :
     a \in TransformEntries, b \in TransformEntries, c \in TransformEntries,
     d \in TransformEntries, ef \in {<<0, 0>>, <<3, -1>>}}

Rectangles ==
  {Region(1, 1, x, 1, width, height) :
     x \in {0, 2}, width \in {-1, 0, 3}, height \in {0, 2}}

InitTransform ==
  /\ latexSource = PreviewText
  /\ latexSourceRef = latexSource
  /\ storage = <<latexSource>>
  /\ editorStatus = "Local storage"
  /\ previewStatus = LOAD_STATUS.ready
  /\ syncStatus = SYNC_STATUS.ready
  /\ \E rectangle \in Rectangles :
       /\ compileResponse = <<[source |-> PreviewText, mappings |-> <<rectangle>>]>>
       /\ synctexPayload = <<[version |-> 1, mappings |-> <<rectangle>>]>>
  /\ activeLine = 1
  /\ selectedLineRange = <<>>
  /\ isCompiling = FALSE
  /\ compileError = <<>>
  /\ isSendingChat = FALSE
  /\ isApplyingLatex = FALSE
  /\ chatError = <<>>
  /\ animationIdRef = 0
  /\ loadCall = "done"
  /\ compileCall = <<>>
  /\ \E transform \in Transforms :
       pageMetrics = <<[RenderedMetrics EXCEPT !.transform = transform]>>
  /\ renderCall = FALSE
  /\ chatCall = <<>>
  /\ sessions = <<>>
  /\ storageAvailable = TRUE
  /\ events = 0
  /\ lastClick = <<>>
  /\ payload = <<>>
  /\ synctexBase64 = <<>>
  /\ parsedPayload = <<>>
  /\ InitFlashcardPage

NextTransform ==
  \/ HighlightClick

SpecTransform == InitTransform /\ [][NextTransform]_vars

\* ------------------------------------------------- handleCompile called directly
\* the handler without the button's disabled attribute in front of it
CompileTexts == {<<" ", NL>>, SampleText}

InitCompile ==
  /\ latexSource \in CompileTexts
  /\ latexSourceRef = latexSource
  /\ storage = <<latexSource>>
  /\ editorStatus = "Local storage"
  /\ previewStatus = LOAD_STATUS.idle
  /\ syncStatus = SYNC_STATUS.pending
  /\ compileResponse = <<>>
  /\ synctexPayload = <<>>
  /\ activeLine = NoLine
  /\ selectedLineRange = <<>>
  /\ isCompiling = FALSE
  /\ compileError = <<>>
  /\ isSendingChat = FALSE
  /\ isApplyingLatex = FALSE
  /\ chatError = <<>>
  /\ animationIdRef = 0
  /\ loadCall = "done"
  /\ compileCall = <<>>
  /\ pageMetrics = <<>>
  /\ renderCall = FALSE
  /\ chatCall = <<>>
  /\ sessions = <<>>
  /\ storageAvailable = TRUE
  /\ events = 0
  /\ lastClick = <<>>
  /\ payload = <<>>
  /\ synctexBase64 = <<>>
  /\ parsedPayload = <<>>
  /\ InitFlashcardPage

NextCompile ==
  \/ handleCompile
  \/ CompileSuccess
  \/ CompileFailure
  \/ EditorChange

SpecCompile == InitCompile /\ [][NextCompile]_vars

\* ------------------------------------------------- region map on the wire
\* Each stage of the wire encoding is a value [kind, of]: `kind` names the
\* encoder that produced it and `of` holds what it encoded; data that no
\* such encoder produced has an empty `of`.
Stage(kind, of) == [kind |-> kind, of |-> of]

\* JavaScript numbers and the JSON null
Num(n) == [type |-> "number", value |-> n]
NaN == [type |-> "NaN", value |-> 0]
Null == [type |-> "null", value |-> 0]

PAGE_WIDTH == 612
PAGE_HEIGHT == 792

MockPages == <<[page |-> 1, width |-> PAGE_WIDTH, height |-> PAGE_HEIGHT]>>

\* an object with the fields of a SynctexPayload, each present or not
SynctexPayload(version, pages, mappings) ==
  [version |-> version, pages |-> pages, mappings |-> mappings]

WireMappingLists ==
  MappingLists \cup {<<Region(1, 1, 1, 2, 3, 1), Region(2, 2, 1, 2, 3, 1)>>}

\* the objects a payload text can denote
PayloadObjects ==
  {SynctexPayload(version, pages, mappings) :
     version \in {<<>>, <<Num(1)>>, <<Num(2)>>, <<Null>>},
     pages \in {<<>>, << <<>> >>, <<MockPages>>},
     mappings \in {<<>>} \cup {<<list>> : list \in WireMappingLists}}

\* the values createMockCompileResponse's payload can take
RegionMaps ==
  {SynctexPayload(<<version>>, <<MockPages>>, <<list>>) :
     version \in {Num(1), Num(2), NaN}, list \in WireMappingLists}

\* JSON.stringify writes a number that is not finite as null
JSONValue(object) ==
  [object EXCEPT !.version = IF @ = <<NaN>> THEN <<Null>> ELSE @]

JSONstringify(object) == Stage("json", <<JSONValue(object)>>)

strToU8(text) == Stage("utf8", <<text>>)

gzipSync(bytes) == Stage("gzip", <<bytes>>)

bytesToBase64(bytes) == Stage("base64", <<bytes>>)

\* the outcome of a call: the value returned or the error thrown
Value(value) == [ok |-> TRUE, value |-> <<value>>, error |-> ""]
Throw(error) == [ok |-> FALSE, value |-> <<>>, error |-> error]

\* window.atob throws on a string that is not base64
base64ToBytes(base64) ==
  IF base64.kind = "base64" THEN Value(base64.of[1])
  ELSE Throw("InvalidCharacterError")

\* fflate's gunzipSync throws on bytes that are not a gzip stream
gunzipSync(bytes) ==
  IF bytes.kind = "gzip" THEN Value(bytes.of[1])
  ELSE Throw("invalid gzip data")

\* new TextDecoder().decode never throws: bytes that are not UTF-8 decode
\* to a text of replacement characters
TextDecode(bytes) ==
  IF bytes.kind = "utf8" THEN bytes.of[1] ELSE Stage("text", <<>>)

\* JSON.parse throws a SyntaxError on a text that is not JSON
JSONparse(text) ==
  IF text.kind = "json" THEN Value(text.of[1])
  ELSE Throw("SyntaxError")

\* mutant: the bytes are decoded as text without being decompressed
parseSynctexPayloadNoGunzip(base64) ==
  LET bytes == base64ToBytes(base64) IN
    IF ~bytes.ok THEN bytes ELSE JSONparse(TextDecode(bytes.value[1]))

parseSynctexPayload(base64) ==
  LET bytes == base64ToBytes(base64) IN
    IF ~bytes.ok THEN bytes
    ELSE LET payloadBytes == gunzipSync(bytes.value[1]) IN
      IF ~payloadBytes.ok THEN payloadBytes
      ELSE JSONparse(TextDecode(payloadBytes.value[1]))

\* createMockCompileResponse: the synctex field of the response
encodeSynctexPayload(object) ==
  bytesToBase64(gzipSync(strToU8(JSONstringify(object))))

\* the strings a CompileResponse can carry in its synctex field
WireStrings ==
  {Stage("text", <<>>),
   bytesToBase64(Stage("bytes", <<>>)),
   bytesToBase64(gzipSync(Stage("bytes", <<>>))),
   bytesToBase64(gzipSync(strToU8(Stage("text", <<>>))))}
  \cup {encodeSynctexPayload(object) : object \in PayloadObjects}

\* createMockCompileResponse builds and encodes a payload
CreateMockCompileResponse ==
  \E object \in RegionMaps :
    /\ payload' = <<object>>
    /\ synctexBase64' = <<encodeSynctexPayload(object)>>
    /\ parsedPayload' = <<>>
    /\ UNCHANGED <<textVars, syncStatus, compileVars, selectionVars, chatVars,
                   animVars, loadCall, storageAvailable, events, lastClick,
                 cardVars>>

\* a response arrives whose synctex field the backend wrote
ReceiveSynctex ==
  \E base64 \in WireStrings :
    /\ payload' = <<>>
    /\ synctexBase64' = <<base64>>
    /\ parsedPayload' = <<>>
    /\ UNCHANGED <<textVars, syncStatus, compileVars, selectionVars, chatVars,
                   animVars, loadCall, storageAvailable, events, lastClick,
                 cardVars>>

ParseSynctexPayload ==
  /\ synctexBase64 # <<>>
  /\ parsedPayload = <<>>
  /\ InitFlashcardPage
  /\ parsedPayload' = <<parseSynctexPayload(synctexBase64[1])>>
  /\ UNCHANGED <<payload, synctexBase64>>
  /\ UNCHANGED <<textVars, syncStatus, compileVars, selectionVars, chatVars,
                 animVars, loadCall, storageAvailable, events, lastClick,
                 cardVars>>

InitWire == InitAnimator /\ latexSource = SampleText

NextWire ==
  \/ CreateMockCompileResponse
  \/ ReceiveSynctex
  \/ ParseSynctexPayload

SpecWire == InitWire /\ [][NextWire]_vars


\* ------------------------------------------------------------------ restart
\* the page is loaded again: the component is mounted anew with the initial
\* values of its state and refs, the slot keeps what the last run left
Reload ==
  /\ loadCall # "mounted"
  /\ events < MaxEvents
  /\ events' = events + 1
  /\ latexSource' = <<>>
  /\ latexSourceRef' = <<>>
  /\ editorStatus' = ""
  /\ previewStatus' = LOAD_STATUS.idle
  /\ syncStatus' = SYNC_STATUS.pending
  /\ compileResponse' = <<>>
  /\ synctexPayload' = <<>>
  /\ activeLine' = NoLine
  /\ selectedLineRange' = <<>>
  /\ isCompiling' = FALSE
  /\ compileError' = <<>>
  /\ isSendingChat' = FALSE
  /\ isApplyingLatex' = FALSE
  /\ chatError' = <<>>
  /\ animationIdRef' = 0
  /\ loadCall' = "mounted"
  /\ compileCall' = <<>>
  /\ pageMetrics' = <<>>
  /\ renderCall' = FALSE
  /\ chatCall' = <<>>
  /\ sessions' = <<>>
  /\ lastClick' = <<>>
  /\ UNCHANGED <<storage, storageAvailable, wireVars, cardVars>>

NextStartup ==
  \/ LoadStored
  \/ LoadFetchSample
  \/ LoadSampleSettled
  \/ StorageFlip
  \/ EditorChange
  \/ Reload

SpecStartup == Init /\ [][NextStartup]_vars

\* ------------------------------------------------------ long animations
\* a text of `length` copies of one character
Repeat(char, length) == [k \in 1..length |-> char]

\* lengths of the removed span and of the replacement, around the step
\* counts at which getStepSize changes
SpanLengths == {1, 2, 119, 120, 121, 241}
LatexLengths == {0, 1, 159, 160, 161, 321}

\* the App holding a one-line text, no call of applyLatexReplacement yet
InitFrames ==
  /\ latexSource \in {Repeat("a", length) : length \in SpanLengths}
  /\ latexSourceRef = latexSource
  /\ storage = <<latexSource>>
  /\ editorStatus = "Local storage"
  /\ previewStatus = LOAD_STATUS.idle
  /\ syncStatus = SYNC_STATUS.pending
  /\ compileResponse = <<>>
  /\ synctexPayload = <<>>
  /\ activeLine = NoLine
  /\ selectedLineRange = <<>>
  /\ isCompiling = FALSE
  /\ compileError = <<>>
  /\ isSendingChat = FALSE
  /\ isApplyingLatex = FALSE
  /\ chatError = <<>>
  /\ animationIdRef = 0
  /\ loadCall = "done"
  /\ compileCall = <<>>
  /\ pageMetrics = <<>>
  /\ renderCall = FALSE
  /\ chatCall = <<>>
  /\ sessions = <<>>
  /\ storageAvailable = TRUE
  /\ events = 0
  /\ lastClick = <<>>
  /\ payload = <<>>
  /\ synctexBase64 = <<>>
  /\ parsedPayload = <<>>
  /\ InitFlashcardPage

\* one call of applyLatexReplacement over the whole line, never superseded
\* a single call on line 1, then its frames
NextFrames ==
  \/ /\ sessions = <<>>
     /\ \E length \in LatexLengths :
          applyLatexReplacement([start |-> 1, end |-> 1], Repeat("x", length))
  \/ Animate

SpecFrames == InitFrames /\ [][NextFrames]_vars

\* ---------------------------------------------- the rewrite path, with timers
\* handleChatSubmit, its responses and the animator, from a loaded editor
\* whose cursor is on line 1, together with calls of applyLatexReplacement
\* that overlap a running one
InitRewrite ==
  /\ latexSource = SampleText
  /\ latexSourceRef = latexSource
  /\ storage = <<latexSource>>
  /\ editorStatus = "Local storage"
  /\ previewStatus = LOAD_STATUS.idle
  /\ syncStatus = SYNC_STATUS.pending
  /\ compileResponse = <<>>
  /\ synctexPayload = <<>>
  /\ activeLine = 1
  /\ selectedLineRange = <<>>
  /\ isCompiling = FALSE
  /\ compileError = <<>>
  /\ isSendingChat = FALSE
  /\ isApplyingLatex = FALSE
  /\ chatError = <<>>
  /\ animationIdRef = 0
  /\ loadCall = "done"
  /\ compileCall = <<>>
  /\ pageMetrics = <<>>
  /\ renderCall = FALSE
  /\ chatCall = <<>>
  /\ sessions = <<>>
  /\ storageAvailable = TRUE
  /\ events = 0
  /\ lastClick = <<>>
  /\ payload = <<>>
  /\ synctexBase64 = <<>>
  /\ parsedPayload = <<>>
  /\ InitFlashcardPage

NextRewrite ==
  \/ handleChatSubmit
  \/ ChatReplyLatex
  \/ ChatReplyPlain
  \/ ChatEmptyReply
  \/ ChatFailure
  \/ /\ sessions # <<>>             \* a call made while the most recent
     /\ sessions[Len(sessions)].pc \in {"delete", "type"}  \* one is running
     /\ ApplyDirect
  \/ Animate

\* every sleep() of a running call resolves: setTimeout fires its callback
SpecRewrite == InitRewrite /\ [][NextRewrite]_vars /\ WF_vars(Animate)

\* ------------------------------------------------------------ the chat form
\* mutant: only a blank prompt is ignored
ChatFormSubmitWhileBusy(chatInput) ==
  IF IsBlank(chatInput)
  THEN /\ UserEvent
       /\ UNCHANGED <<textVars, syncStatus, compileVars, selectionVars,
                      chatVars, animVars, loadCall>>
  ELSE /\ UserEvent
       /\ isSendingChat' = TRUE
       /\ chatError' = <<>>
       /\ chatCall' = <<[rangeForRequest |-> RangeForRequest,
                         compiledSource |-> CompiledSource(compileResponse),
                         payload |-> ChatRequest]>>
       /\ UNCHANGED <<textVars, syncStatus, compileVars, selectionVars,
                      animVars, loadCall>>

\* handleChatSubmit from its first line: the two returns, then the request
ChatFormSubmit(chatInput) ==
  IF isSendingChat \/ isApplyingLatex \/ IsBlank(chatInput)
  THEN /\ UserEvent
       /\ UNCHANGED <<textVars, syncStatus, compileVars, selectionVars,
                      chatVars, animVars, loadCall>>
  ELSE handleChatSubmit

\* the form is submitted whatever the state of the page and of its input,
\* which is empty, blank or a prompt
NextChat ==
  \/ \E chatInput \in {<<>>, <<" ", NL>>, <<"p">>} : ChatFormSubmit(chatInput)
  \/ ChatReplyLatex
  \/ ChatReplyPlain
  \/ ChatEmptyReply
  \/ ChatFailure
  \/ Animate

SpecChat == InitRewrite /\ [][NextChat]_vars

\* ------------------------------------------------- FlashcardPage: its handlers
\* the App is not part of this page
appVars == <<textVars, syncStatus, compileVars, selectionVars, chatVars,
             animVars, loadCall, storageAvailable, events, lastClick, wireVars>>

currentCard ==
  IF cards = <<>> THEN <<>>
  ELSE <<cards[Min(currentIndex, Len(cards) - 1) + 1]>>

\* totalAnswered is correctCount + wrongCount
isComplete == Len(cards) > 0 /\ correctCount + wrongCount >= Len(cards)

resetSession ==
  /\ currentIndex' = 0
  /\ isRevealed' = FALSE
  /\ correctCount' = 0
  /\ wrongCount' = 0

\* Math.random() lets the loop produce every order of the deck
shuffleCards(deck) ==
  {[k \in 1..Len(deck) |-> deck[order[k]]] : order \in Permutations(1..Len(deck))}

\* the texts typed into the JSON editor
Documents ==
  LET Str(text) == <<Property("string", text)>>
      NullItem == Item("null", <<>>, <<>>, <<>>, <<>>)
      StringItem == Item("string", <<>>, <<>>, <<>>, <<>>)
      CardA == Item("object", Str(<<" ", "q">>), Str(<<"a">>), <<>>, <<>>)
      CardB == Item("object", <<Property("number", <<>>)>>, Str(<<"b">>),
                    Str(<<"f">>), Str(<<"x">>))
      CardFrontBack == Item("object", <<>>, <<>>, Str(<<"f">>), Str(<<"k", " ">>))
      CardBlank == Item("object", Str(<<" ">>), Str(<<"a">>), <<>>, <<>>)
  IN {Parsed("invalid", <<>>), Parsed("null", <<>>), Parsed("number", <<>>),
      Parsed("object", <<>>), SAMPLE_JSON, Parsed("array", <<>>),
      Parsed("array", <<NullItem, StringItem, CardBlank>>),
      Parsed("array", <<CardA>>), Parsed("array", <<CardA, NullItem, CardB>>),
      Parsed("cards", <<CardFrontBack, CardBlank>>)}

\* onChange of the textarea
setJsonSource ==
  /\ \E value \in Documents : jsonSource' = value
  /\ operation' = "setJsonSource"
  /\ UNCHANGED <<sessionVars, loadStatus, loadError, appVars>>

handleLoadCards ==
  LET result == parseCards(jsonSource)
  IN /\ operation' = "handleLoadCards"
     /\ IF result.ok
        THEN /\ cards' = result.cards
             /\ resetSession
             /\ loadStatus' = [text |-> "Loaded", count |-> Len(result.cards)]
             /\ loadError' = <<>>
        ELSE /\ loadError' = <<result.error>>
             /\ loadStatus' = [text |-> "Load failed", count |-> 0]
             /\ UNCHANGED sessionVars
     /\ UNCHANGED <<jsonSource, appVars>>

handleReveal ==
  /\ operation' = "handleReveal"
  /\ IF currentCard = <<>> \/ isComplete
     THEN UNCHANGED isRevealed
     ELSE isRevealed' = ~isRevealed
  /\ UNCHANGED <<jsonSource, cards, currentIndex, correctCount, wrongCount,
                 loadStatus, loadError, appVars>>

\* mutant: a card is marked although the deck is complete
handleMarkWhenComplete(isCorrect) ==
  /\ operation' = "handleMark"
  /\ IF currentCard = <<>>
     THEN UNCHANGED <<currentIndex, isRevealed, correctCount, wrongCount>>
     ELSE /\ correctCount' = IF isCorrect THEN correctCount + 1 ELSE correctCount
          /\ wrongCount' = IF isCorrect THEN wrongCount ELSE wrongCount + 1
          /\ currentIndex' = Min(currentIndex + 1, Max(Len(cards) - 1, 0))
          /\ isRevealed' = FALSE
  /\ UNCHANGED <<jsonSource, cards, loadStatus, loadError, appVars>>

handleMark(isCorrect) ==
  /\ operation' = "handleMark"
  /\ IF currentCard = <<>> \/ isComplete
     THEN UNCHANGED <<currentIndex, isRevealed, correctCount, wrongCount>>
     ELSE /\ correctCount' = IF isCorrect THEN correctCount + 1 ELSE correctCount
          /\ wrongCount' = IF isCorrect THEN wrongCount ELSE wrongCount + 1
          /\ currentIndex' = Min(currentIndex + 1, Max(Len(cards) - 1, 0))
          /\ isRevealed' = FALSE
  /\ UNCHANGED <<jsonSource, cards, loadStatus, loadError, appVars>>

handleShuffle ==
  /\ operation' = "handleShuffle"
  /\ IF Len(cards) < 2
     THEN UNCHANGED <<sessionVars, loadStatus, loadError>>
     ELSE /\ \E next \in shuffleCards(cards) : cards' = next
          /\ resetSession
          /\ loadStatus' = [text |-> "Shuffled deck", count |-> 0]
          /\ loadError' = <<>>
  /\ UNCHANGED <<jsonSource, appVars>>

NextFlashcards ==
  \/ setJsonSource
  \/ handleLoadCards
  \/ handleReveal
  \/ \E isCorrect \in BOOLEAN : handleMark(isCorrect)
  \/ handleShuffle

\* the page on its own route, the App's state as InitWire has it
SpecFlashcards == InitWire /\ [][NextFlashcards]_vars

\* ===================================================================== claims
\* session k returns from its commit in this step
Commits(k) ==
  /\ k \in DOMAIN sessions
  /\ sessions[k].pc \in {"delete", "type"}
  /\ sessions'[k].pc = "done"

Live(k) == sessions[k].pc \in {"delete", "type"}

\* lines joined by the line separator
RECURSIVE Join(_)
Join(lines) ==
  IF Len(lines) = 0 THEN <<>>
  ELSE IF Len(lines) = 1 THEN lines[1]
       ELSE lines[1] \o <<NL>> \o Join(Tail(lines))

\* the lines before range.start, the replacement, the lines after range.end
SplicedByLines(source, range, replacement) ==
  LET lines == Split(source)
  IN Join(SubSeq(lines, 1, range.start - 1) \o <<replacement>>
          \o SubSeq(lines, range.end + 1, Len(lines)))

\* C1: a session over a range within 1..lineCount that commits leaves the
\* lines before the range, the replacement and the lines after the range,
\* the separator before the following line preserved.
C1_CommitSplicesByLines ==
  [][\A k \in DOMAIN sessions :
       (/\ Commits(k)
        /\ 1 <= sessions[k].range.start
        /\ sessions[k].range.start <= sessions[k].range.end
        /\ sessions[k].range.end <= Len(Split(sessions[k].source)))
       => latexSource' = SplicedByLines(sessions[k].source, sessions[k].range,
                                        sessions[k].normalizedLatex)]_vars

\* C2: at the commit of a session over range R with replacement T the
\* selection becomes {R.start, R.start + lines(T) - 1}, end never below
\* R.start, and the active line its end.
C2_CommitSelectsInsertedLines ==
  [][\A k \in DOMAIN sessions :
       Commits(k) =>
         LET R == sessions[k].range
             T == sessions[k].normalizedLatex
         IN /\ selectedLineRange' =
                 <<[start |-> R.start, end |-> R.start + Len(Split(T)) - 1]>>
            /\ selectedLineRange'[1].end >= R.start]_vars

\* a two-line replacement of line 1 has committed: the selection is {1, 2}
C2_Witness ==
  /\ \E k \in DOMAIN sessions : sessions[k].pc = "done"
  /\ ~isApplyingLatex
  /\ selectedLineRange = <<[start |-> 1, end |-> 2]>>
  /\ activeLine = 2
  /\ Len(latexSource) >= 3
  /\ SubSeq(latexSource, 1, 3) = <<"x", NL, "y">>

Overlap(r1, r2) == Max(r1.start, r2.start) <= Min(r1.end, r2.end)

\* the text with the range replaced, computed on a given text as the code does
Replaced(source, range, replacement) ==
  LET span == getLineSpan(source, range)
  IN Slice(source, 0, span.start) \o replacement \o SliceFrom(source, span.end)

\* C3: when the second session starts on an overlapping range while the first
\* is in flight, the committed text is the pre-animation text with the second
\* session's range replaced by the second replacement.
C3_SecondSessionTarget ==
  [][(/\ Len(sessions) >= 2
      /\ Commits(2)
      /\ sessions[1].pc # "done"
      /\ Overlap(sessions[1].range, sessions[2].range))
     => latexSource' = Replaced(sessions[1].source, sessions[2].range,
                                sessions[2].normalizedLatex)]_vars

\* C4: a step of a session that is no longer the current one writes neither
\* the text, the slot, the sync status, the selection nor isApplyingLatex.
C4_SupersededStepsAreNoOps ==
  [][\A k \in DOMAIN sessions :
       (/\ Live(k)
        /\ sessions[k].animationId # animationIdRef
        /\ sessions'[k] # sessions[k])
       => UNCHANGED <<latexSource, latexSourceRef, storage, editorStatus,
                      syncStatus, activeLine, selectedLineRange,
                      isApplyingLatex>>]_vars

\* a superseded session has aborted while the newer one animates
C4_Witness ==
  \E j, k \in DOMAIN sessions :
    /\ j < k
    /\ sessions[j].pc = "aborted"
    /\ Live(k)
    /\ isApplyingLatex
    /\ latexSource # sessions[k].source

\* C5: ids are assigned in strictly increasing order and at most one session
\* carries the current id.
C5_GenerationIds ==
  /\ \A j, k \in DOMAIN sessions :
       j < k => sessions[j].animationId < sessions[k].animationId
  /\ \A k \in DOMAIN sessions : sessions[k].animationId <= animationIdRef
  /\ Cardinality({k \in DOMAIN sessions :
                    sessions[k].animationId = animationIdRef}) <= 1

\* two sessions are in flight at once
C5_Witness ==
  /\ Len(sessions) >= 2
  /\ Live(1) /\ Live(2)

\* no "delete" entry after a "type" entry
DeletesBeforeTypes(log) ==
  \A m, n \in DOMAIN log : (log[m] = "type" /\ log[n] = "delete") => n < m

TypeWrites(log) == Cardinality({m \in DOMAIN log : log[m] = "type"})

\* C6: within a session the delete writes precede the type writes, the commit
\* follows the last type write, and an aborted session never commits.
C6_PhaseOrder ==
  [][\A k \in DOMAIN sessions :
       /\ k \in DOMAIN sessions' => DeletesBeforeTypes(sessions'[k].log)
       /\ Commits(k) =>
            /\ sessions[k].log # <<>>
            /\ sessions[k].log[Len(sessions[k].log)] = "type"
            /\ TypeWrites(sessions[k].log) =
                 Len(sessions[k].normalizedLatex) \div TypeStepSize(sessions[k]) + 1
            /\ latexSource =
                 TypeFrame(sessions[k],
                           (Len(sessions[k].normalizedLatex)
                              \div TypeStepSize(sessions[k]))
                           * TypeStepSize(sessions[k]))
       /\ sessions[k].pc = "aborted" => sessions'[k].pc = "aborted"]_vars

\* one session has committed after another one aborted
C6_Witness ==
  \E j, k \in DOMAIN sessions :
    /\ sessions[j].pc = "aborted"
    /\ sessions[k].pc = "done"
    /\ ~isApplyingLatex

\* C7: after a manual edit with an artifact and no compile in flight the status
\* is Ready when the text equals the snapshot and Dirty otherwise.
C7_EditRecomputesStatus ==
  [][(EditorChange /\ compileResponse # <<>> /\ compileCall = <<>>)
     => syncStatus' = IF latexSource' = compileResponse[1].source
                      THEN SYNC_STATUS.ready ELSE SYNC_STATUS.dirty]_vars

\* C8: while a compile request is in flight the status is Loading.
C8_LoadingWhileInFlight ==
  compileCall # <<>> => syncStatus = SYNC_STATUS.loading

\* C9: when a compile response has been processed and the authoritative
\* artifact carries a non-empty snapshot, the status is Ready iff the current
\* text equals that snapshot and Dirty otherwise.
C9_ResponseComparesCurrentText ==
  [][((CompileSuccess \/ CompileFailure) /\ Truthy(CompiledSource(compileResponse')))
     => syncStatus' = IF latexSource' = compileResponse'[1].source
                      THEN SYNC_STATUS.ready ELSE SYNC_STATUS.dirty]_vars

\* C10: while a session animates, the status is not Ready when the displayed
\* text differs from the artifact's snapshot.
C10_NotReadyWhileFramesDiffer ==
  (/\ \E k \in DOMAIN sessions : Live(k)
   /\ compileResponse # <<>>
   /\ compileCall = <<>>
   /\ latexSource # compileResponse[1].source)
  => syncStatus # SYNC_STATUS.ready

\* C11: when a session commits with no compile in flight and the artifact
\* stored at that moment carries a non-empty snapshot, the status is Ready when
\* the committed text equals that snapshot and Dirty otherwise, also when the
\* artifact was installed after the rewrite was submitted.
C11_CommitComparesCurrentArtifact ==
  [][\A k \in DOMAIN sessions :
       (Commits(k) /\ compileCall' = <<>> /\ Truthy(CompiledSource(compileResponse')))
       => syncStatus' = IF latexSource' = compileResponse'[1].source
                        THEN SYNC_STATUS.ready ELSE SYNC_STATUS.dirty]_vars

\* C12: once an artifact is stored the status is never Pending, whatever
\* snapshot the artifact carries.
C12_NeverPendingWithArtifact ==
  compileResponse # <<>> => syncStatus # SYNC_STATUS.pending

\* C13: a failed compile leaves the stored artifact, the region map, the text,
\* the active line and the selected range as they were, records an error
\* message and clears the in-flight flag.
C13_FailureKeepsArtifact ==
  [][CompileFailure
     => /\ UNCHANGED <<compileResponse, synctexPayload, latexSource,
                       activeLine, selectedLineRange>>
        /\ compileError' # <<>>
        /\ ~isCompiling']_vars

\* a compile has failed while an artifact and a selected range exist
C13_Witness ==
  /\ compileError # <<>>
  /\ compileResponse # <<>>
  /\ selectedLineRange # <<>>
  /\ ~isCompiling

\* C14: a call of the compile handler while the text is empty or whitespace
\* only sends no request, does not enter Loading, leaves the text, the status
\* and the artifact as they were, and sets an error message and the error
\* preview status.
C14_BlankCompileSendsNothing ==
  [][(handleCompile /\ IsBlank(latexSource))
     => /\ UNCHANGED <<compileCall, isCompiling, latexSource, syncStatus,
                       compileResponse, synctexPayload>>
        /\ compileError' # <<>>
        /\ previewStatus' = LOAD_STATUS.error]_vars

\* the handler was called on a blank text while an artifact is stored
C14_Witness ==
  /\ compileError = <<"Add LaTeX source before compiling.">>
  /\ IsBlank(latexSource)
  /\ compileResponse # <<>>
  /\ compileCall = <<>>

\* C15: a reply that carries a replacement while the text is empty sets an
\* error string on the chat component.
C15_EmptySourceSurfaced ==
  [][(ChatReplyLatex /\ latexSourceRef = <<>>) => chatError' # <<>>]_vars

\* C16: at most one compile request is in flight at any time, and the
\* in-flight flag is set while it is.
C16_OneCompileInFlight ==
  /\ Len(compileCall) <= 1
  /\ compileCall # <<>> => isCompiling

\* a compile is in flight on a non-blank text and the user can still act
C16_Witness ==
  /\ Len(compileCall) = 1
  /\ ~IsBlank(latexSource)
  /\ events < MaxEvents

\* C17: after an editor change, click, key-up or mouse-up whose selection is
\* collapsed or lies within one line, that line is the active line and no
\* range is recorded.
C17_SingleLineSelectionClearsRange ==
  [][\A selectionStart \in 0..Len(latexSource') :
       \A selectionEnd \in selectionStart..Len(latexSource') :
         (/\ \/ updateActiveLineFromEditor(selectionStart, selectionEnd)
             \/ handleEditorChange(latexSource', selectionStart, selectionEnd)
          /\ getLineNumber(latexSource', selectionStart)
               = getLineNumber(latexSource', selectionEnd))
         => /\ activeLine' = getLineNumber(latexSource', selectionStart)
            /\ selectedLineRange' = <<>>]_vars

\* a region click has just been handled
Clicked == events' = events + 1 /\ lastClick' # <<>>

\* the anchor of a shift click: the start of the recorded range, else the
\* active line, else none
Anchor == IF selectedLineRange # <<>> THEN selectedLineRange[1].start ELSE activeLine

\* C18: a region click without shift, or with shift when there is no anchor,
\* makes the region's line the active line and leaves no range recorded.
C18_PlainClickClearsRange ==
  [][(Clicked /\ (~lastClick'[1].shiftKey \/ Anchor = NoLine))
     => /\ activeLine' = lastClick'[1].line
        /\ selectedLineRange' = <<>>]_vars

\* the last user event was a plain click on a region while a range was
\* recorded and another line was active
C18_Witness ==
  /\ lastClick # <<>>
  /\ ~lastClick[1].shiftKey
  /\ lastClick[1].selectedLineRange # <<>>
  /\ lastClick[1].activeLine # lastClick[1].line
  /\ activeLine = lastClick[1].line
  /\ selectedLineRange = <<>>

\* C19: a shift click on the region of line t with anchor a records the range
\* {min(a, t), max(a, t)} and makes t the active line.
C19_ShiftClickExtendsFromAnchor ==
  [][(Clicked /\ lastClick'[1].shiftKey /\ Anchor # NoLine)
     => LET t == lastClick'[1].line
        IN /\ selectedLineRange' = <<[start |-> IF Anchor < t THEN Anchor ELSE t,
                                      end |-> IF Anchor < t THEN t ELSE Anchor]>>
           /\ activeLine' = t]_vars

\* the last user event was a shift click above the anchor, the anchor being
\* the start of a recorded range that differs from the active line
C19_Witness ==
  /\ lastClick # <<>>
  /\ lastClick[1].shiftKey
  /\ lastClick[1].selectedLineRange # <<>>
  /\ lastClick[1].selectedLineRange[1].start # lastClick[1].activeLine
  /\ lastClick[1].line < lastClick[1].selectedLineRange[1].start
  /\ selectedLineRange = <<[start |-> lastClick[1].line,
                            end |-> lastClick[1].selectedLineRange[1].start]>>
  /\ activeLine = lastClick[1].line

\* the lines a region can carry in the checked instances
RegionLines == 1..4

\* C20: a line is highlighted exactly when a range is recorded and holds it,
\* or no range is recorded and it is the active line; with neither a range nor
\* an active line no line is highlighted.
C20_HighlightedLines ==
  {line \in RegionLines : isLineHighlighted(line)}
    = IF selectedLineRange # <<>>
      THEN selectedLineRange[1].start..selectedLineRange[1].end
      ELSE IF activeLine # NoLine THEN {activeLine} ELSE {}

\* a range is recorded whose lines are highlighted while the active line
\* lies outside of it and is not
C20_Witness ==
  /\ selectedLineRange # <<>>
  /\ activeLine # NoLine
  /\ activeLine \notin selectedLineRange[1].start..selectedLineRange[1].end
  /\ ~isLineHighlighted(activeLine)
  /\ isLineHighlighted(selectedLineRange[1].end)

\* C21: a recorded range always satisfies 1 <= start <= end.
C21_RangeOrdered ==
  selectedLineRange # <<>>
  => /\ 1 <= selectedLineRange[1].start
     /\ selectedLineRange[1].start <= selectedLineRange[1].end

\* after a rewrite was committed, a shift click on a line above the anchor
\* recorded a range
C21_Witness ==
  /\ \E k \in DOMAIN sessions : sessions[k].pc = "done"
  /\ lastClick # <<>>
  /\ lastClick[1].shiftKey
  /\ lastClick[1].selectedLineRange # <<>>
  /\ lastClick[1].line < lastClick[1].selectedLineRange[1].start
  /\ selectedLineRange # <<>>
  /\ selectedLineRange[1].start < selectedLineRange[1].end

\* the number of lines of a text
lineCount(text) == Len(Split(text))

\* C22: on a non-empty text the active line and both ends of the recorded
\* range lie within 1..lineCount of the current text.
C22_LinesWithinText ==
  latexSource # <<>>
  => /\ activeLine # NoLine => activeLine \in 1..lineCount(latexSource)
     /\ selectedLineRange # <<>>
        => /\ selectedLineRange[1].start \in 1..lineCount(latexSource)
           /\ selectedLineRange[1].end \in 1..lineCount(latexSource)

\* the stored region map has no mapping
EmptyRegionMap == synctexPayload # <<>> /\ synctexPayload[1].mappings = <<>>

\* C23 as stated: with an empty region map isLineHighlighted is true for no
\* line.
C23_NoLineHighlighted ==
  EmptyRegionMap => \A line \in RegionLines : ~isLineHighlighted(line)

\* C23 amended: with an empty region map no region is rendered, so none is
\* shown highlighted, and no step is a region click; the active line goes on
\* being highlighted in the sense of isLineHighlighted.
C23_EmptyMapRendersNothing ==
  /\ [](EmptyRegionMap => RenderedRegions = <<>>)
  /\ [][EmptyRegionMap => ~Clicked]_vars

\* the page of an artifact with an empty region map is drawn and the user
\* has placed the caret since
C23_Witness ==
  /\ EmptyRegionMap
  /\ pageMetrics # <<>>
  /\ ~renderCall
  /\ compileCall = <<>>
  /\ events > 1
  /\ isLineHighlighted(activeLine)

\* C24: the style of every rendered region has width >= 0 and height >= 0,
\* its left and top are the minima and left + width and top + height the
\* maxima of the two transformed corners (a*x + c*y + e, b*x + d*y + f) of the
\* mapping's rectangle.
C24_HighlightBox ==
  \A i \in DOMAIN RenderedRegions :
    LET m == RenderedRegions[i]
        t == pageMetrics[1].transform
        style == getHighlightStyle(m)[1]
        x1 == t[1] * m.x + t[3] * m.y + t[5]
        y1 == t[2] * m.x + t[4] * m.y + t[6]
        x2 == t[1] * (m.x + m.width) + t[3] * (m.y + m.height) + t[5]
        y2 == t[2] * (m.x + m.width) + t[4] * (m.y + m.height) + t[6]
    IN /\ style.width >= 0
       /\ style.height >= 0
       /\ style.left <= x1 /\ style.left <= x2 /\ style.left \in {x1, x2}
       /\ style.top <= y1 /\ style.top <= y2 /\ style.top \in {y1, y2}
       /\ style.left + style.width >= x1 /\ style.left + style.width >= x2
       /\ style.left + style.width \in {x1, x2}
       /\ style.top + style.height >= y1 /\ style.top + style.height >= y2
       /\ style.top + style.height \in {y1, y2}

\* a region is drawn under a transform that mirrors x and rotates, its second
\* corner left of and above the first
C24_Witness ==
  /\ RenderedRegions # <<>>
  /\ pageMetrics[1].transform[1] < 0
  /\ pageMetrics[1].transform[2] # 0
  /\ LET m == RenderedRegions[1]
         style == getHighlightStyle(m)[1]
         t == pageMetrics[1].transform
     IN /\ style.left < t[1] * m.x + t[3] * m.y + t[5]
        /\ style.top < t[2] * m.x + t[4] * m.y + t[6]
        /\ style.width > 0
  /\ lastClick # <<>>


\* an object that has the three fields of a SynctexPayload
HasRequiredFields(object) ==
  object.version # <<>> /\ object.pages # <<>> /\ object.mappings # <<>>

\* C25: decoding a region-map payload fails with a MalformedPayload error
\* whenever the payload cannot be decompressed or parsed or lacks version,
\* pages or mappings, so that a call that returns gives an object with the
\* three fields.
C25_MalformedPayloadRejected ==
  (parsedPayload # <<>> /\ parsedPayload[1].ok)
    => HasRequiredFields(parsedPayload[1].value[1])

\* a payload whose version is a finite number
ValidRegionMap(object) ==
  HasRequiredFields(object) /\ object.version[1].type = "number"

C27_LatexStartsSession ==
  [][(/\ chatCall # <<>>
      /\ chatCall[1].rangeForRequest # <<>>
      /\ latexSourceRef # <<>>
      /\ \/ ChatReplyLatex
         \/ \E latex \in LatexTexts : ChatReplyEmpty(<<latex>>))
     => /\ Len(sessions') = Len(sessions) + 1
        /\ sessions'[Len(sessions')].range = chatCall[1].rangeForRequest[1]]_vars


\* C28: a rewrite request never carries both selected_line and
\* selected_lines; with a recorded range it carries selected_lines, one
\* entry per line of the range in ascending line order, and no
\* selected_line; it carries selected_line only when no range is recorded
\* and an active line exists.
C28_SelectionContextExclusive ==
  [][handleChatSubmit =>
       LET request == chatCall'[1].payload
       IN /\ ~(request.selected_line # <<>> /\ request.selected_lines # <<>>)
          /\ selectedLineRange # <<>> =>
               LET range == selectedLineRange[1]
                   entries == request.selected_lines[1]
               IN /\ request.selected_lines # <<>>
                  /\ request.selected_line = <<>>
                  /\ Len(entries) = range.end - range.start + 1
                  /\ \A k \in DOMAIN entries :
                       entries[k].line_number = range.start + k - 1
          /\ request.selected_line # <<>> =>
               (selectedLineRange = <<>> /\ activeLine # NoLine)]_vars


\* C29: every selection entry of a rewrite request carries the text of its
\* line in the current SourceText: selected_line is the active line n with
\* the text of line n, and each selected_lines entry has the text of its
\* line.
C29_EntriesCarryLineText ==
  [][handleChatSubmit =>
       LET request == chatCall'[1].payload
           lines == Split(latexSource)
       IN /\ request.selected_line # <<>> =>
               /\ request.selected_line[1].line_number = activeLine
               /\ activeLine \in DOMAIN lines
               /\ request.selected_line[1].text = lines[activeLine]
          /\ request.selected_lines # <<>> =>
               \A k \in DOMAIN request.selected_lines[1] :
                 LET entry == request.selected_lines[1][k]
                 IN /\ entry.line_number \in DOMAIN lines
                    /\ entry.text = lines[entry.line_number]]_vars


\* a manual edit: a user event that is a handleEditorChange call
ManualEdit == events' = events + 1 /\ EditorChange

\* the commit of some EditAnimator session
SomeCommit ==
  /\ sessions' # sessions
  /\ \E k \in DOMAIN sessions : sessions[k].pc = "type" /\ Commit(k)

\* C30: while the store is writable the slot is written after every
\* committed mutation and only then: after a manual edit and after a
\* commit the slot holds the resulting SourceText (a step that leaves the
\* writable slot different from the text is neither of them), and no other
\* step, a delete-phase or type-phase frame least of all, changes the slot.
C30_SlotFollowsCommittedText ==
  [][/\ (storageAvailable /\ storage' # <<latexSource'>>)
          => ~(ManualEdit \/ SomeCommit)
     /\ storage' # storage => (ManualEdit \/ SomeCommit)]_vars

\* a session has committed and the slot holds its result, a text that no
\* manual edit and no load produces
C30_Witness ==
  /\ storageAvailable
  /\ \E k \in DOMAIN sessions : sessions[k].pc = "done"
  /\ ~isApplyingLatex
  /\ storage = <<latexSource>>
  /\ latexSource \notin EditTexts


\* C31: a persistence write that fails does not throw, block or revert
\* the edit: the text, the sync status and the selection are set as the
\* edit sets them, no error is raised elsewhere, and the failure shows
\* only as the editor status 'Local storage unavailable'; a write that
\* succeeds sets the status to 'Local storage'.
C31_FailedWriteKeepsEdit ==
  [][ManualEdit =>
       IF storageAvailable
       THEN editorStatus' = "Local storage"
       ELSE /\ editorStatus' = "Local storage unavailable"
            /\ storage' = storage
            /\ latexSource' \in EditTexts
            /\ latexSourceRef' = latexSource'
            /\ syncStatus' =
                 getSyncStatus(latexSource', CompiledSource(compileResponse))
            /\ \E selectionStart \in SelectionOffsets(latexSource') :
                 \E selectionEnd \in SelectionOffsets(latexSource') :
                   /\ activeLine' = getLineNumber(latexSource', selectionStart)
                   /\ selectedLineRange' =
                        getSelectionLineRange(latexSource', selectionStart,
                                              selectionEnd)
            /\ UNCHANGED <<chatError, compileError>>]_vars

\* an edit made while the store refuses writes: the text is the edit's, the
\* slot still holds the older text
C31_Witness ==
  /\ ~storageAvailable
  /\ loadCall = "done"
  /\ editorStatus = "Local storage unavailable"
  /\ latexSource = SampleText
  /\ storage = << <<"a", NL, "b", NL, "c">> >>
  /\ sessions = <<>>


\* C32: at startup the text is the value held in the slot whenever the
\* slot holds a value and can be read: the mount effect then finishes with
\* that value as the text and does not ask for the template.
C32_StartupLoadsSlot ==
  [][(loadCall = "mounted" /\ loadCall' # "mounted"
      /\ storageAvailable /\ storage # <<>>)
     => /\ loadCall' = "done"
        /\ latexSource' = storage[1]]_vars


\* session k is current and has not committed yet
Animating(k) ==
  /\ sessions[k].pc \in {"delete", "type"}
  /\ sessions[k].animationId = animationIdRef

\* C33: the text surface is read-only for the whole duration of an
\* animation: whenever a session is current and has not committed,
\* isApplyingLatex is true, and no user event writes the text in such a
\* state.
C33_ReadOnlyWhileAnimating ==
  /\ [](\A k \in DOMAIN sessions : Animating(k) => isApplyingLatex)
  /\ [][(events' = events + 1 /\ latexSource' # latexSource)
          => \A k \in DOMAIN sessions : ~Animating(k)]_vars

\* a session started from the chat is between two frames and the user can
\* still act
C33_Witness ==
  /\ \E k \in DOMAIN sessions :
       /\ Animating(k)
       /\ Len(sessions[k].log) >= 2
  /\ isApplyingLatex
  /\ events < MaxEvents


\* C34: a failure while rasterizing a compiled artifact moves the preview
\* state to the error state and leaves the text, the sync status, the
\* selection and the stored artifact unchanged.
C34_RenderFailureKeepsState ==
  [][RenderFailure
     => /\ previewStatus' = LOAD_STATUS.error
        /\ UNCHANGED <<latexSource, storage, syncStatus, activeLine,
                       selectedLineRange, compileResponse, synctexPayload>>]_vars

\* the first rasterization of an artifact has failed
C34_Witness ==
  /\ previewStatus = LOAD_STATUS.error
  /\ compileResponse # <<>>
  /\ compileError = <<>>
  /\ ~renderCall
  /\ pageMetrics = <<>>
  /\ compileCall = <<>>


\* C35: a session that is not superseded shows the fully emptied span
\* (prefix + suffix) as the last frame of its delete phase, its type phase
\* grows the inserted prefix from the empty string to the full replacement,
\* and from frame to frame the removed text strictly shrinks and the
\* inserted text strictly grows.
C35_FramesReachBothEnds ==
  [][(sessions # <<>> /\ sessions' # sessions) =>
       LET s == sessions[1]
           next == sessions'[1]
       IN /\ (s.pc = "delete" /\ next.pc = "delete")
               => Len(latexSource') < Len(latexSource)
          /\ (s.pc = "delete" /\ next.pc = "type")
               => /\ latexSource = s.prefix \o s.suffix
                  /\ latexSource' = s.prefix \o s.suffix
          /\ (s.pc = "type" /\ next.pc = "type")
               => Len(latexSource') > Len(latexSource)
          /\ (s.pc = "type" /\ next.pc = "done")
               => latexSource = FinalSource(s)]_vars


\* the number of frames a phase of the session has written so far
Writes(s, phase) == Len(SelectSeq(s.log, LAMBDA entry : entry = phase))

\* C36: the number of animation steps is bounded whatever the lengths: the
\* delete phase writes the buffer at most BACKSPACE_ANIMATION_MAX_STEPS
\* times and the type phase at most TYPE_ANIMATION_MAX_STEPS times.
C36_StepsBounded ==
  \A k \in DOMAIN sessions :
    /\ Writes(sessions[k], "delete") <= BACKSPACE_ANIMATION_MAX_STEPS
    /\ Writes(sessions[k], "type") <= TYPE_ANIMATION_MAX_STEPS


Finished(k) == k \in DOMAIN sessions /\ sessions[k].pc \in {"done", "aborted"}

\* no rewrite request is awaiting its response and no call that a request
\* started is still running
RewriteRequestOver ==
  /\ chatCall = <<>>
  /\ \A k \in DOMAIN sessions : sessions[k].fromChat => ~Live(k)

\* C37: every session terminates, by its commit or by a guard abort: again
\* and again no session is left running, and a finished session never runs
\* again; once the most recently started session has finished the editor is
\* no longer read-only, and once every rewrite request is over, whether it
\* succeeded or failed, the chat send control is enabled again.
C37_ReturnsToInteractive ==
  /\ []<>(\A k \in DOMAIN sessions : Finished(k))
  /\ [][\A k \in DOMAIN sessions : Finished(k) => sessions'[k] = sessions[k]]_vars
  /\ []((sessions # <<>> /\ Finished(Len(sessions))) => ~isApplyingLatex)
  /\ [](RewriteRequestOver => ~isSendingChat)

\* a chat session was superseded and aborted, a later one committed and a
\* request failed: nothing is running and both controls are back
C37_Witness ==
  /\ \E k \in DOMAIN sessions : sessions[k].fromChat /\ sessions[k].pc = "aborted"
  /\ sessions[Len(sessions)].pc = "done"
  /\ \A k \in DOMAIN sessions : ~Live(k)
  /\ chatCall = <<>>
  /\ chatError # <<>>
  /\ ~isApplyingLatex
  /\ ~isSendingChat


\* C38: the regions of the current artifact's region map are never positioned
\* with page metrics obtained from an older artifact: a step that replaces
\* the artifact and keeps the page metrics leaves no region drawn, and so
\* does a failed rasterization of the current artifact.
C38_MetricsOfCurrentArtifact ==
  [][/\ (compileResponse' # compileResponse /\ pageMetrics' = pageMetrics)
          => RenderedRegions' = <<>>
     /\ (renderCall /\ ~renderCall' /\ previewStatus' = LOAD_STATUS.error)
          => RenderedRegions' = <<>>]_vars


\* the chat sessions that are still running
ChatSessionsInFlight == {k \in DOMAIN sessions : sessions[k].fromChat /\ Live(k)}

\* a submit of the chat form
Submitted == events' = events + 1

SessionWithinDeck ==
  /\ correctCount + wrongCount <= Len(cards)
  /\ 0 <= currentIndex
  /\ currentIndex <= Max(Len(cards) - 1, 0)

SessionReset == currentIndex' = 0 /\ correctCount' = 0 /\ wrongCount' = 0 /\ ~isRevealed'

\* reveal and mark change nothing once every card has been answered
NoOpsWhenComplete ==
  (operation' \in {"handleReveal", "handleMark"} /\ isComplete)
    => UNCHANGED <<jsonSource, sessionVars, loadStatus, loadError>>

\* a load whose text is no JSON or holds no valid card keeps the session
FailedLoadKeepsSession ==
  (operation' = "handleLoadCards" /\ ~parseCards(jsonSource).ok)
    => UNCHANGED sessionVars

SuccessfulLoadResets ==
  (operation' = "handleLoadCards" /\ parseCards(jsonSource).ok)
    => SessionReset /\ cards' = parseCards(jsonSource).cards

\* C40 as stated: the counters and the index stay within the deck, reveal and
\* mark are no-ops on a complete deck, a failed load leaves the session
\* unchanged, and a successful load or a shuffle resets the index and the
\* counters to 0 and hides the answer.
C40_ShuffleAlwaysResets ==
  /\ [](SessionWithinDeck)
  /\ [][/\ NoOpsWhenComplete
        /\ FailedLoadKeepsSession
        /\ SuccessfulLoadResets
        /\ operation' = "handleShuffle" => SessionReset]_vars

\* C40, amended: as above, with the shuffle of a deck of two or more cards
\* resetting the session and the shuffle of a smaller deck changing nothing.
C40_StudySession ==
  /\ [](SessionWithinDeck)
  /\ [][/\ NoOpsWhenComplete
        /\ FailedLoadKeepsSession
        /\ SuccessfulLoadResets
        /\ (operation' = "handleShuffle" /\ Len(cards) >= 2)
             => (SessionReset /\ cards' \in shuffleCards(cards))
        /\ (operation' = "handleShuffle" /\ Len(cards) < 2)
             => UNCHANGED <<jsonSource, sessionVars, loadStatus, loadError>>]_vars

\* after a failed load every card of a deck of two was answered, one right
\* and one wrong, and the card was clicked again
C40_Witness ==
  /\ Len(cards) = 2
  /\ correctCount = 1 /\ wrongCount = 1
  /\ currentIndex = 1
  /\ loadError # <<>>
  /\ operation = "handleReveal"
  /\ ~isRevealed

====
